---- MODULE Spec2Model ----
(***************************************************************************)
(* Model of heredity.py: exact inference by enumeration over a family      *)
(* tree (gene copies 0/1/2 and a boolean trait per person).                *)
(*                                                                         *)
(* Numbers.  The program computes with floats that are all finite products *)
(* and sums of the decimal constants of PROBS.  The model computes the     *)
(* same expressions exactly, in fixed point: a gene prior and a trait      *)
(* probability are counted in hundredths, a transmission probability       *)
(* (person_prob) in thousandths.  A weight is a natural number of units;   *)
(* the products exceed the 32-bit integers of TLC, so a weight is          *)
(* kept by its residues modulo a list of primes.                           *)
(***************************************************************************)
EXTENDS Integers, Sequences, FiniteSets, TLC

\* ------------------------------------------------------------------ bounds
MaxPeople == 3

MaxRows == 2

\* ------------------------------------------------------- exact arithmetic
\* A natural number below the product of Moduli (more than 10^37) is kept as
\* the sequence of its residues; sums and products are taken residue by
\* residue, and two such numbers are equal exactly if their residues are.
\* No weight of the model comes near that bound: a weight is at most one
\* unit per person (10^8), an accumulator at most 6^n weights.
Moduli == <<46337, 46327, 46309, 46307, 46301, 46279, 46273, 46271>>

Big(n) == [i \in 1..Len(Moduli) |-> n % Moduli[i]]

BigZero == Big(0)

BigOne == Big(1)

BigAdd(a, b) == [i \in 1..Len(Moduli) |-> (a[i] + b[i]) % Moduli[i]]

\* a * k for a natural k
BigMulSmall(a, k) == [i \in 1..Len(Moduli) |-> (a[i] * (k % Moduli[i])) % Moduli[i]]

RECURSIVE Pow(_, _)
Pow(b, e) == IF e = 0 THEN 1 ELSE b * Pow(b, e - 1)

\* ------------------------------------------------------------ the tables
None == "None"

\* PROBS["gene"], in hundredths
GenePrior(g) == CASE g = 2 -> 1 [] g = 1 -> 3 [] g = 0 -> 96

\* PROBS["trait"][g][t], in hundredths
TraitTable(g, t) ==
    CASE g = 2 -> (IF t THEN 65 ELSE 35)
      [] g = 1 -> (IF t THEN 56 ELSE 44)
      [] g = 0 -> (IF t THEN 1 ELSE 99)

\* PROBS["mutation"], in thousandths
Mutation == 10

\* the unit of a transmission probability: 1 is 1000 thousandths
One == 1000

\* ------------------------------------------------------------ populations
NameList == <<"Harry", "James", "Lily", "Molly", "Arthur">>

Names(n) == {NameList[i] : i \in 1..n}

Traits == {"True", "False", None}

\* founder, or two distinct parents among the persons listed before
ParentOptions(i) ==
    {<<None, None>>} \cup
    {par \in {<<NameList[m], NameList[f]>> : m \in 1..(i - 1), f \in 1..(i - 1)} :
        par[1] # par[2]}

RECURSIVE Populations(_)
Populations(n) ==
    IF n = 0 THEN {<<>>}
    ELSE {Append(pop, [name |-> NameList[n], mother |-> par[1],
                       father |-> par[2], trait |-> t]) :
            pop \in Populations(n - 1), par \in ParentOptions(n), t \in Traits}

\* the dictionary load_data returns for a well-formed file of n rows
PeopleOf(pop) == [name \in Names(Len(pop)) |->
                    pop[CHOOSE i \in 1..Len(pop) : NameList[i] = name]]

WellFormedPeople == UNION {{PeopleOf(pop) : pop \in Populations(n)} : n \in 0..MaxPeople}

\* ---------------------------------------------------------------- powerset
\* list(s): the members of s in one fixed order
RECURSIVE ListOf(_)
ListOf(s) ==
    IF s = {} THEN <<>>
    ELSE LET i == CHOOSE j \in 1..Len(NameList) :
                    /\ NameList[j] \in s
                    /\ \A k \in 1..(j - 1) : NameList[k] \notin s
         IN  <<NameList[i]>> \o ListOf(s \ {NameList[i]})

\* itertools.combinations(l, r), each combination as a set
RECURSIVE combinations(_, _)
combinations(l, r) ==
    IF r = 0 THEN <<{}>>
    ELSE IF Len(l) < r THEN <<>>
    ELSE LET rest == combinations(Tail(l), r - 1)
         IN  [i \in 1..Len(rest) |-> {Head(l)} \cup rest[i]] \o combinations(Tail(l), r)

RECURSIVE chain(_, _)
chain(l, r) == IF r > Len(l) THEN <<>> ELSE combinations(l, r) \o chain(l, r + 1)

RECURSIVE chain_short(_, _)
chain_short(l, r) ==
    IF r >= Len(l) /\ r > 0 THEN <<>> ELSE combinations(l, r) \o chain_short(l, r + 1)

\* range(len(s)) for range(len(s) + 1): the full set is never produced
powerset_short(s) == chain_short(ListOf(s), 0)

powerset(s) == chain(ListOf(s), 0)

\* ------------------------------------------------------- joint probability
\* a parent with one copy passes it on with 0.5, the mutation forgotten
person_prob_half(person_name, one_gene_names, two_genes_names) ==
    IF person_name \in two_genes_names THEN 990
    ELSE IF person_name \in one_gene_names THEN 500
    ELSE Mutation

\* thousandths
person_prob(person_name, one_gene_names, two_genes_names) ==
    IF person_name \in two_genes_names THEN 990
    ELSE IF person_name \in one_gene_names THEN 495
    ELSE Mutation

IsFounder(people, name) == people[name].father = None \/ people[name].mother = None

\* value of one_gene_p[name]: hundredths for a founder, millionths otherwise
one_gene_p(people, one_gene, two_genes, name) ==
    IF IsFounder(people, name) THEN GenePrior(1)
    ELSE LET poppa_p == person_prob(people[name].father, one_gene, two_genes)
             momma_p == person_prob(people[name].mother, one_gene, two_genes)
         IN  poppa_p * (One - momma_p) + momma_p * (One - poppa_p)

two_genes_p(people, one_gene, two_genes, name) ==
    IF IsFounder(people, name) THEN GenePrior(2)
    ELSE LET poppa_p == person_prob(people[name].father, one_gene, two_genes)
             momma_p == person_prob(people[name].mother, one_gene, two_genes)
         IN  poppa_p * momma_p

zero_gene_p(people, one_gene, two_genes, name) ==
    IF IsFounder(people, name) THEN GenePrior(0)
    ELSE LET poppa_p == person_prob(people[name].father, one_gene, two_genes)
             momma_p == person_prob(people[name].mother, one_gene, two_genes)
         IN  (One - poppa_p) * (One - momma_p)

\* prob_dict is a function from the names of one gene group to their gene
\* probabilities.  The value is joint_p * trait_prob(prob_dict, ...): the
\* product_ of the loop of trait_prob is multiplied into joint_p factor by
\* factor, which in exact arithmetic is the product line 189 forms.
RECURSIVE trait_prob_over(_, _, _, _, _)
trait_prob_over(joint_p, keys, prob_dict, num_copies, have_trait) ==
    IF keys = {} THEN joint_p
    ELSE LET name == CHOOSE x \in keys : TRUE
             rest == trait_prob_over(joint_p, keys \ {name}, prob_dict, num_copies, have_trait)
         IN  BigMulSmall(BigMulSmall(rest, prob_dict[name]),
                         TraitTable(num_copies, name \in have_trait))

trait_prob(joint_p, prob_dict, num_copies, have_trait) ==
    trait_prob_over(joint_p, DOMAIN prob_dict, prob_dict, num_copies, have_trait)

\* the three dictionaries enumerated in the order one, zero, two
joint_probability_misordered(people, one_gene, two_genes, have_trait) ==
    LET zero_gene == {name \in DOMAIN people : name \notin one_gene /\ name \notin two_genes}
        d0 == [name \in zero_gene |-> zero_gene_p(people, one_gene, two_genes, name)]
        d1 == [name \in one_gene |-> one_gene_p(people, one_gene, two_genes, name)]
        d2 == [name \in two_genes |-> two_genes_p(people, one_gene, two_genes, name)]
    IN  trait_prob(trait_prob(trait_prob(BigOne, d1, 0, have_trait), d0, 1, have_trait),
                   d2, 2, have_trait)

joint_probability(people, one_gene, two_genes, have_trait) ==
    LET zero_gene == {name \in DOMAIN people : name \notin one_gene /\ name \notin two_genes}
        d0 == [name \in zero_gene |-> zero_gene_p(people, one_gene, two_genes, name)]
        d1 == [name \in one_gene |-> one_gene_p(people, one_gene, two_genes, name)]
        d2 == [name \in two_genes |-> two_genes_p(people, one_gene, two_genes, name)]
    IN  trait_prob(trait_prob(trait_prob(BigOne, d0, 0, have_trait), d1, 1, have_trait),
                   d2, 2, have_trait)

\* the number of units in 1: 10^4 per founder, 10^8 per other person
RECURSIVE UnitOver(_, _)
UnitOver(people, keys) ==
    IF keys = {} THEN BigOne
    ELSE LET name == CHOOSE x \in keys : TRUE
             rest == UnitOver(people, keys \ {name})
         IN  IF IsFounder(people, name) THEN BigMulSmall(rest, 10000)
             ELSE BigMulSmall(BigMulSmall(rest, 10000), 10000)

Unit(people) == UnitOver(people, DOMAIN people)

\* ------------------------------------------------------------------- state
VARIABLES
    rows,           \* load_data: the rows of the file not yet read
    file,           \* load_data: the rows of the file as opened
    people,         \* load_data's dictionary, then main's people
    probabilities,  \* main: name -> "gene"/"trait" -> value -> numerator
    denom,          \* main: name -> "gene"/"trait" -> denominator of the numerators
    pc,             \* "load", "loaded" | "check", "score", "done", "error"
    traitIter,      \* the have_trait sets still to visit, the current one first
    oneIter,        \* the one_gene sets still to visit, the current one first
    twoIter,        \* the two_genes sets still to visit, the current one first
    call,           \* the arguments of the last joint_probability/update call
    nScored,        \* the number of such calls
    total,          \* the sum of the weights p passed to update
    visited,        \* the (one_gene, two_genes) pairs scored for the current have_trait
    nVisited        \* the number of calls for the current have_trait

vars == <<rows, file, people, probabilities, denom, pc, traitIter, oneIter, twoIter,
          call, nScored, total, visited, nVisited>>

NoCall == [one_gene |-> {}, two_genes |-> {}, have_trait |-> {}, p |-> BigZero, made |-> FALSE]

Dists == {"gene", "trait"}

\* main, lines 48-61
ZeroProbabilities(pp) ==
    [person \in DOMAIN pp |->
        [gene |-> [g \in 0..2 |-> BigZero], trait |-> [t \in BOOLEAN |-> BigZero]]]

\* only an observed True is compared with the candidate set
fails_evidence_true_only(pp, have_trait) ==
    \E person \in DOMAIN pp :
        /\ pp[person].trait = "True"
        /\ person \notin have_trait

\* main, lines 68-72
fails_evidence(pp, have_trait) ==
    \E person \in DOMAIN pp :
        /\ pp[person].trait # None
        /\ pp[person].trait # (IF person \in have_trait THEN "True" ELSE "False")

\* "if" for "elif": a person of one_gene also falls into the final else
update_if(probs, one_gene, two_genes, have_trait, p) ==
    [person \in DOMAIN probs |->
        [trait |-> [t \in BOOLEAN |->
                      IF t = (person \in have_trait)
                      THEN BigAdd(probs[person].trait[t], p)
                      ELSE probs[person].trait[t]],
         gene |-> [g \in 0..2 |->
                      IF \/ g = 1 /\ person \in one_gene
                         \/ g = 2 /\ person \in two_genes
                         \/ g = 0 /\ person \notin two_genes
                      THEN BigAdd(probs[person].gene[g], p)
                      ELSE probs[person].gene[g]]]]

\* the final else is missing: nothing is added for a person without the gene
update_no_zero(probs, one_gene, two_genes, have_trait, p) ==
    [person \in DOMAIN probs |->
        [trait |-> [t \in BOOLEAN |->
                      IF t = (person \in have_trait)
                      THEN BigAdd(probs[person].trait[t], p)
                      ELSE probs[person].trait[t]],
         gene |-> [g \in 0..2 |->
                      IF \/ g = 1 /\ person \in one_gene
                         \/ g = 2 /\ person \in two_genes /\ person \notin one_gene
                      THEN BigAdd(probs[person].gene[g], p)
                      ELSE probs[person].gene[g]]]]

update(probs, one_gene, two_genes, have_trait, p) ==
    [person \in DOMAIN probs |->
        [trait |-> [t \in BOOLEAN |->
                      IF t = (person \in have_trait)
                      THEN BigAdd(probs[person].trait[t], p)
                      ELSE probs[person].trait[t]],
         gene |-> LET g == IF person \in one_gene THEN 1
                           ELSE IF person \in two_genes THEN 2
                           ELSE 0
                  IN  [probs[person].gene EXCEPT ![g] = BigAdd(@, p)]]]

\* "=" for "+=": the sum is the last value only
get_dist_sum_last(dist) == dist[CHOOSE item \in DOMAIN dist : TRUE]

get_dist_sum(dist) ==
    LET RECURSIVE SumOver(_)
        SumOver(items) ==
            IF items = {} THEN BigZero
            ELSE LET item == CHOOSE x \in items : TRUE
                 IN  BigAdd(SumOver(items \ {item}), dist[item])
    IN  SumOver(DOMAIN dist)

\* the sums normalize divides by
Sums(probs) ==
    [person_name \in DOMAIN probs |->
        [dist_name \in Dists |-> get_dist_sum(probs[person_name][dist_name])]]

Init ==
    /\ people \in WellFormedPeople
    /\ rows = <<>>
    /\ file = <<>>
    /\ probabilities = ZeroProbabilities(people)
    /\ denom = [person \in DOMAIN people |-> [d \in Dists |-> Unit(people)]]
    /\ pc = "check"
    /\ traitIter = powerset(DOMAIN people)
    /\ oneIter = <<>>
    /\ twoIter = <<>>
    /\ call = NoCall
    /\ nScored = 0
    /\ total = BigZero
    /\ visited = {}
    /\ nVisited = 0

\* line 73-74: the current have_trait contradicts the evidence
SkipTrait ==
    /\ pc = "check"
    /\ traitIter # <<>>
    /\ fails_evidence(people, Head(traitIter))
    /\ traitIter' = Tail(traitIter)
    /\ UNCHANGED <<rows, file, people, probabilities, denom, pc, oneIter, twoIter,
                   call, nScored, total, visited, nVisited>>

\* lines 77-78: the gene loops start for a have_trait that fits the evidence
EnterGeneLoops ==
    /\ pc = "check"
    /\ traitIter # <<>>
    /\ ~fails_evidence(people, Head(traitIter))
    /\ pc' = "score"
    /\ oneIter' = powerset(DOMAIN people)
    /\ twoIter' = powerset(DOMAIN people \ Head(oneIter'))
    /\ visited' = {}
    /\ nVisited' = 0
    /\ UNCHANGED <<rows, file, people, probabilities, denom, traitIter,
                   call, nScored, total>>

\* lines 81-82, then the step of the three loops
Score ==
    /\ pc = "score"
    /\ \E have_trait \in {Head(traitIter)}, one_gene \in {Head(oneIter)},
          two_genes \in {Head(twoIter)} :
         \E p \in {joint_probability(people, one_gene, two_genes, have_trait)} :
           /\ probabilities' = update(probabilities, one_gene, two_genes, have_trait, p)
           /\ call' = [one_gene |-> one_gene, two_genes |-> two_genes,
                       have_trait |-> have_trait, p |-> p, made |-> TRUE]
           /\ nScored' = nScored + 1
           /\ total' = BigAdd(total, p)
           /\ visited' = visited \cup {<<one_gene, two_genes>>}
           /\ nVisited' = nVisited + 1
    /\ IF Tail(twoIter) # <<>>
       THEN /\ twoIter' = Tail(twoIter)
            /\ UNCHANGED <<oneIter, traitIter, pc>>
       ELSE IF Tail(oneIter) # <<>>
       THEN /\ oneIter' = Tail(oneIter)
            /\ twoIter' = powerset(DOMAIN people \ Head(oneIter'))
            /\ UNCHANGED <<traitIter, pc>>
       ELSE /\ traitIter' = Tail(traitIter)
            /\ oneIter' = <<>>
            /\ twoIter' = <<>>
            /\ pc' = "check"
    /\ UNCHANGED <<rows, file, people, denom>>

\* line 85: each distribution is divided by its sum; Python raises
\* ZeroDivisionError when a sum is zero
normalize ==
    /\ pc = "check"
    /\ traitIter = <<>>
    /\ LET sums == Sums(probabilities)
       IN  IF \E person_name \in DOMAIN people, d \in Dists : sums[person_name][d] = BigZero
           THEN pc' = "error" /\ denom' = denom
           ELSE pc' = "done" /\ denom' = sums
    /\ UNCHANGED <<rows, file, people, probabilities, traitIter, oneIter, twoIter,
                   call, nScored, total, visited, nVisited>>

Next == SkipTrait \/ EnterGeneLoops \/ Score \/ normalize

Spec == Init /\ [][Next]_vars

\* ------------------------------------------------------------------ loader
NameCells == {"Harry", "James"}

ParentCells == {"", "Harry"}

\* "2" stands for every cell other than "", "0" and "1"
TraitCells == {"", "0", "1", "2"}

Rows == [name : NameCells, mother : ParentCells, father : ParentCells, trait : TraitCells]

RECURSIVE Files(_)
Files(n) ==
    IF n = 0 THEN {<<>>}
    ELSE LET shorter == Files(n - 1)
         IN  shorter \cup {Append(f, row) : f \in {g \in shorter : Len(g) = n - 1}, row \in Rows}

\* x or None
OrNone(cell) == IF cell = "" THEN None ELSE cell

\* lines 109-115
LoadedPerson(row) ==
    [name |-> row.name,
     mother |-> OrNone(row.mother),
     father |-> OrNone(row.father),
     trait |-> IF row.trait = "1" THEN "True"
               ELSE IF row.trait = "0" THEN "False"
               ELSE None]

InitLoad ==
    /\ file \in Files(MaxRows)
    /\ rows = file
    /\ people = <<>>
    /\ pc = "load"
    /\ probabilities = <<>>
    /\ denom = <<>>
    /\ traitIter = <<>>
    /\ oneIter = <<>>
    /\ twoIter = <<>>
    /\ call = NoCall
    /\ nScored = 0
    /\ total = BigZero
    /\ visited = {}
    /\ nVisited = 0

\* lines 107-115: one row of the reader
LoadRow ==
    /\ pc = "load"
    /\ rows # <<>>
    /\ LET row == Head(rows)
       IN  people' = [name \in DOMAIN people \cup {row.name} |->
                        IF name = row.name THEN LoadedPerson(row) ELSE people[name]]
    /\ rows' = Tail(rows)
    /\ UNCHANGED <<file, probabilities, denom, pc, traitIter, oneIter, twoIter,
                   call, nScored, total, visited, nVisited>>

\* line 116
LoadReturn ==
    /\ pc = "load"
    /\ rows = <<>>
    /\ pc' = "loaded"
    /\ UNCHANGED <<rows, file, people, probabilities, denom, traitIter, oneIter, twoIter,
                   call, nScored, total, visited, nVisited>>

NextLoad == LoadRow \/ LoadReturn

SpecLoad == InitLoad /\ [][NextLoad]_vars

\* ------------------------------------------------------------- properties
Observed(pp) == {person \in DOMAIN pp : pp[person].trait # None}

EnumerationOver == (pc = "check" /\ traitIter = <<>>) \/ pc \in {"done", "error"}

GeneSum(person) ==
    BigAdd(BigAdd(probabilities[person].gene[0], probabilities[person].gene[1]),
           probabilities[person].gene[2])

TraitSum(person) ==
    BigAdd(probabilities[person].trait[TRUE], probabilities[person].trait[FALSE])

\* C1: for a well-formed population the sums normalize divides by are
\* positive, no division by zero happens, and after normalize the three gene
\* values and the two trait values of every person each add up to their
\* denominator, that is, each distribution sums to 1.
DistributionsSumToOne ==
    /\ pc # "error"
    /\ EnumerationOver =>
         \A person \in DOMAIN people :
            GeneSum(person) # BigZero /\ TraitSum(person) # BigZero
    /\ pc = "done" =>
         \A person \in DOMAIN people :
            /\ denom[person]["gene"] # BigZero
            /\ denom[person]["trait"] # BigZero
            /\ GeneSum(person) = denom[person]["gene"]
            /\ TraitSum(person) = denom[person]["trait"]

NormalizedFamily ==
    /\ pc = "done"
    /\ Cardinality(DOMAIN people) = 3
    /\ \E person \in DOMAIN people : people[person].mother # None
    /\ \E person \in DOMAIN people : people[person].trait = "True"
    /\ \E person \in DOMAIN people : people[person].trait = None

\* C2: no call of joint_probability/update gets a have_trait set that
\* contradicts an observed trait, so at every point a person observed True
\* has nothing in trait[False] and a person observed False nothing in
\* trait[True].
EvidenceIsHardFilter ==
    \A person \in DOMAIN people :
        /\ people[person].trait = "True" =>
             /\ call.made => person \in call.have_trait
             /\ probabilities[person].trait[FALSE] = BigZero
        /\ people[person].trait = "False" =>
             /\ call.made => person \notin call.have_trait
             /\ probabilities[person].trait[TRUE] = BigZero

FilteredAndScored ==
    /\ EnumerationOver
    /\ call.made
    /\ \E person \in DOMAIN people : people[person].trait = "True"
    /\ \E person \in DOMAIN people : people[person].trait = "False"
    /\ \E person \in DOMAIN people :
          /\ people[person].trait = None
          /\ probabilities[person].trait[TRUE] # BigZero
          /\ probabilities[person].trait[FALSE] # BigZero

\* the gene count a scenario assigns to a person
AssignedCount(one_gene, two_genes, person) ==
    IF person \in one_gene THEN 1 ELSE IF person \in two_genes THEN 2 ELSE 0

\* transmission probability of a parent with g copies, in thousandths:
\* 1 - m, 0.5 (1 - m), m
Transmission(g) ==
    CASE g = 2 -> One - Mutation
      [] g = 1 -> (One - Mutation) \div 2
      [] g = 0 -> Mutation

\* the gene factor of one person: the prior for a person without parents,
\* else the combination of the parents' transmission probabilities
GeneFactor(pp, one_gene, two_genes, person) ==
    LET g == AssignedCount(one_gene, two_genes, person)
    IN  IF pp[person].mother = None /\ pp[person].father = None THEN GenePrior(g)
        ELSE LET pf == Transmission(AssignedCount(one_gene, two_genes, pp[person].father))
                 pm == Transmission(AssignedCount(one_gene, two_genes, pp[person].mother))
             IN  CASE g = 0 -> (One - pf) * (One - pm)
                   [] g = 1 -> pf * (One - pm) + pm * (One - pf)
                   [] g = 2 -> pf * pm

RECURSIVE ProductOfFactors(_, _, _, _, _)
ProductOfFactors(pp, one_gene, two_genes, have_trait, i) ==
    IF i = 0 THEN BigOne
    ELSE LET rest == ProductOfFactors(pp, one_gene, two_genes, have_trait, i - 1)
             person == NameList[i]
         IN  IF person \notin DOMAIN pp THEN rest
             ELSE BigMulSmall(
                    BigMulSmall(rest, GeneFactor(pp, one_gene, two_genes, person)),
                    TraitTable(AssignedCount(one_gene, two_genes, person),
                               person \in have_trait))

\* C3: the weight joint_probability returns for disjoint one_gene and
\* two_genes is the product, over all persons, of one gene factor (prior or
\* parents' transmission) and one trait factor each.
JointIsProductOfFactors ==
    call.made =>
        /\ call.one_gene \cap call.two_genes = {}
        /\ call.p = ProductOfFactors(people, call.one_gene, call.two_genes,
                                     call.have_trait, Len(NameList))

ChildScoredWithMixedParents ==
    /\ call.made
    /\ \E person \in DOMAIN people :
          /\ people[person].mother # None
          /\ people[person].father # None
          /\ people[person].mother \in call.one_gene
          /\ people[person].father \in call.two_genes
          /\ person \notin call.one_gene \cup call.two_genes
          /\ person \in call.have_trait

\* C4: one call of update adds p, for every person, to the gene bucket of
\* the person's assigned count and to the trait bucket of the person's
\* membership in have_trait, and leaves every other bucket as it was.
UpdateAddsToOneBucketEach ==
    [][nScored' = nScored + 1 =>
        \A person \in DOMAIN people :
            /\ \A g \in 0..2 :
                 probabilities'[person].gene[g] =
                    IF g = AssignedCount(call'.one_gene, call'.two_genes, person)
                    THEN BigAdd(probabilities[person].gene[g], call'.p)
                    ELSE probabilities[person].gene[g]
            /\ \A t \in BOOLEAN :
                 probabilities'[person].trait[t] =
                    IF t = (person \in call'.have_trait)
                    THEN BigAdd(probabilities[person].trait[t], call'.p)
                    ELSE probabilities[person].trait[t]]_vars

UpdatedAllGroups ==
    /\ call.made
    /\ call.p # BigZero
    /\ call.one_gene # {}
    /\ call.two_genes # {}
    /\ DOMAIN people \ (call.one_gene \cup call.two_genes) # {}
    /\ call.have_trait # {}
    /\ DOMAIN people \ call.have_trait # {}

SingleFounderObservedTrue ==
    /\ DOMAIN people = {NameList[1]}
    /\ people[NameList[1]].trait = "True"

\* the value num / den is x4 / 10^4 to four decimals: the accumulator of a
\* single founder counts ten-thousandths, so it is the whole number x4
Approx4(num, den, x4) == den = Big(10000) /\ num = Big(x4)

\* C6 as stated: for one founder observed True the gene accumulator before
\* normalization is about {2: 0.0054, 1: 0.0140, 0: 0.0812}.
FounderNumeratorsAsStated ==
    SingleFounderObservedTrue /\ EnumerationOver =>
        LET gene == probabilities[NameList[1]].gene
            unit == Unit(people)
        IN  /\ Approx4(gene[2], unit, 54)
            /\ Approx4(gene[1], unit, 140)
            /\ Approx4(gene[0], unit, 812)

\* C6: for one founder observed True the gene accumulator before
\* normalization holds P(g) * P(trait = True | g) for each g, which is
\* {2: 0.0065, 1: 0.0168, 0: 0.0096}, and the normalized posterior is these
\* values divided by their sum 0.0329.
FounderBayesNumerators ==
    SingleFounderObservedTrue /\ EnumerationOver =>
        LET gene == probabilities[NameList[1]].gene
            unit == Unit(people)
        IN  /\ unit = Big(10000)
            /\ \A g \in 0..2 : gene[g] = Big(GenePrior(g) * TraitTable(g, TRUE))
            /\ Approx4(gene[2], unit, 65)
            /\ Approx4(gene[1], unit, 168)
            /\ Approx4(gene[0], unit, 96)
            /\ pc = "done" => denom[NameList[1]]["gene"] = Big(65 + 168 + 96)

FounderObservedTrueNormalized ==
    /\ SingleFounderObservedTrue
    /\ pc = "done"
    /\ nScored = 3
    /\ probabilities[NameList[1]].gene[1] = Big(168)

\* C7 as stated: the enumeration scores 6^n combinations for n people.
ScoresSixToTheN ==
    EnumerationOver => nScored = Pow(6, Cardinality(DOMAIN people))

\* C7: the enumeration scores 3^n * 2^(n - k) combinations for n people of
\* whom k have an observed trait; that is 6^n only when no trait is observed.
ScoresSurvivingCombinations ==
    EnumerationOver =>
        LET n == Cardinality(DOMAIN people)
            k == Cardinality(Observed(people))
        IN  nScored = Pow(3, n) * Pow(2, n - k)

ScoredWithOneObserved ==
    /\ pc = "done"
    /\ Cardinality(DOMAIN people) = 3
    /\ Cardinality(Observed(people)) = 1
    /\ nScored = 108

DisjointPairs(s) == {pair \in (SUBSET s) \X (SUBSET s) : pair[1] \cap pair[2] = {}}

\* C9: for a have_trait set that fits the evidence the gene loops visit
\* only disjoint (one_gene, two_genes) pairs, none twice, and when they end
\* they have visited all 3^n of them.
GeneLoopsVisitEachPartitionOnce ==
    /\ \A pair \in visited : pair[1] \cap pair[2] = {}
    /\ nVisited = Cardinality(visited)
    /\ (pc = "check" /\ nVisited > 0) =>
          /\ visited = DisjointPairs(DOMAIN people)
          /\ nVisited = Pow(3, Cardinality(DOMAIN people))

AllPartitionsVisited ==
    /\ pc = "check"
    /\ Cardinality(DOMAIN people) = 3
    /\ nVisited = 27
    /\ <<{NameList[1]}, {NameList[2], NameList[3]}>> \in visited

\* C10: during the accumulation every person's three gene buckets and two
\* trait buckets both add up to the sum of the weights passed to update so
\* far, and normalize divides every distribution by that one total.
AccumulatorsShareTotal ==
    \A person \in DOMAIN people :
        /\ pc \in {"check", "score"} =>
              GeneSum(person) = total /\ TraitSum(person) = total
        /\ pc = "done" =>
              denom[person]["gene"] = total /\ denom[person]["trait"] = total

AccumulatedSeveralWeights ==
    /\ pc = "score"
    /\ nScored > 3
    /\ total # BigZero
    /\ Cardinality(DOMAIN people) >= 2
    /\ \E person \in DOMAIN people :
          probabilities[person].gene[1] # BigZero /\ probabilities[person].gene[2] # BigZero

====
